---- MODULE Spec2Model ----
(***************************************************************************)
(* A model of the mesh layer of gltf-rs (src/src/mesh.rs): the wrapper     *)
(* types Mesh, Primitive, Attributes and Primitives over an immutable      *)
(* document, and of the depth-first node walk and the vertex building of  *)
(* the importer test (src/gltf-importer/tests/import_examples.rs).         *)
(*                                                                         *)
(* Indices are 0-based as in the source; TLA+ sequences are 1-based, so    *)
(* element i of a document array is seq[i + 1].                            *)
(***************************************************************************)
EXTENDS Integers, Sequences, FiniteSets, TLC

VARIABLES
    doc,      \* the document (json::Root behind &'a Gltf): never written
    ret,      \* the latest completed call of a Primitive method and its outcome
    alive,    \* alive[r]: reader thread r has not panicked
    pit,      \* pit[r]: the Primitives iterator reader r holds
    ait,      \* ait[r]: the Attributes iterator reader r holds
    walk,     \* the depth-first walk over the scenes: position, stack and log
    build     \* import_from_path and iterate_primitive: position and vertices

vars == <<doc, ret, alive, pit, ait, walk, build>>

(***************************************************************************)
(* Bounds of the model.                                                    *)
(***************************************************************************)
NumAccessors == 2     \* length of the document's accessor array
NumMaterials == 2     \* length of the document's material array
MaxAttrs == 2         \* entries in one primitive's attribute map
MaxSet == 1           \* largest set number of a set-indexed semantic
MaxPrims == 2         \* primitives in the mesh
NumNodes == 3         \* length of the document's node array
MaxChildren == 2      \* children of one node
MaxScenes == 2        \* scenes of the document
MaxRoots == 2         \* root nodes of all scenes together
NumReaders == 2       \* concurrent reader threads
MaxCount == 2         \* largest element count of an accessor

(***************************************************************************)
(* Option<T>, and the outcome of a call: a returned value or a panic (an   *)
(* unwrap() of None or of Err unwinds the calling thread).                 *)
(***************************************************************************)
None == [some |-> FALSE]
Some(x) == [some |-> TRUE, v |-> x]

Panic == [t |-> "panic"]
Ret(x) == [t |-> "ret", v |-> x]
NoRes == [t |-> "none"]

(***************************************************************************)
(* json::Value, as far as accessor bounds need it: numbers, strings and    *)
(* arrays.  Numbers are integers.                                          *)
(***************************************************************************)
JNum(n) == [k |-> "num", n |-> n]
JStr == [k |-> "str", n |-> 0]
JArr(e) == [k |-> "arr", e |-> e]

\* The width of an f32 significand: integers up to 2^24 are exact in f32.
F32Exact == 16777216

\* `n as f32` for an integer n with |n| <= 2^25: exact up to 2^24, beyond it
\* the representable values are the even integers and ties go to the even
\* significand.
AsF32(n) ==
    LET a == IF n < 0 THEN -n ELSE n
        q == a \div 2
        r == IF a <= F32Exact \/ a % 2 = 0 THEN a
             ELSE IF q % 2 = 0 THEN 2 * q ELSE 2 * q + 2
    IN  IF n < 0 THEN -r ELSE r

\* json::from_value::<[f32; 3]>: Ok for an array of exactly three numbers,
\* Err for anything else.
FromValue3(j) ==
    IF /\ j.k = "arr"
       /\ Len(j.e) = 3
       /\ \A i \in 1..3 : j.e[i].k = "num"
    THEN [ok |-> TRUE, v |-> [i \in 1..3 |-> AsF32(j.e[i].n)]]
    ELSE [ok |-> FALSE]

(***************************************************************************)
(* json::mesh::Semantic and json::validation::Checked<Semantic>.           *)
(***************************************************************************)
Sem(name, set) == [name |-> name, set |-> set]
Positions == Sem("Positions", 0)
Normals == Sem("Normals", 0)
Tangents == Sem("Tangents", 0)
SetNames == {"Colors", "TexCoords", "Joints", "Weights"}
\* The set numbers of the model: the first and the largest.
SetNumbers == {0, MaxSet}
Semantics ==
    {Positions, Normals, Tangents} \cup {Sem(n, s) : n \in SetNames, s \in SetNumbers}

Valid(s) == [valid |-> TRUE, sem |-> s]
Invalid == [valid |-> FALSE, sem |-> Sem("", 0)]
Keys == {Valid(s) : s \in Semantics} \cup {Invalid}

(***************************************************************************)
(* Lookups in the document.                                                *)
(***************************************************************************)
\* Iterator::nth over a document array: None at or beyond its length.
Nth(seq, i) == IF i < Len(seq) THEN Some(seq[i + 1]) ELSE None

\* gltf.accessors().nth(i): the Accessor wrapper of accessor i.
AccessorsNth(d, i) ==
    IF Nth(d.accessors, i).some
    THEN Some([index |-> i, json |-> d.accessors[i + 1]])
    ELSE None

\* gltf.materials().nth(i): the Material wrapper of material i.
MaterialsNth(d, i) ==
    IF Nth(d.materials, i).some
    THEN Some([index |-> Some(i), json |-> d.materials[i + 1]])
    ELSE None

\* Material::default(gltf): no index, the default JSON material.
DefaultMaterial == [index |-> None, json |-> [id |-> 0]]

\* Accessor::min and Accessor::max: the declared bounds, if any.
AccessorMin(a) == a.json.min
AccessorMax(a) == a.json.max

\* HashMap::get on a primitive's attribute map.  The map is the sequence of
\* its entries in the map's iteration order; keys are distinct.
RECURSIVE MapGet(_, _)
MapGet(attrs, key) ==
    IF attrs = <<>> THEN None
    ELSE IF Head(attrs).key = key THEN Some(Head(attrs).index)
    ELSE MapGet(Tail(attrs), key)

\* The JSON primitive p (0-based) of the mesh the readers work on.
Prims(d) == d.meshes[1].primitives
PrimJson(d, p) == Prims(d)[p + 1]

(***************************************************************************)
(* Primitive's methods.                                                    *)
(***************************************************************************)
\* position_bounds reading the bounds of the first accessor, whatever the
\* Positions entry names.
position_bounds_first(d, p) ==
    LET e == MapGet(PrimJson(d, p).attributes, Valid(Positions)) IN
    IF e.some
    THEN LET a == AccessorsNth(d, 0) IN
         IF ~AccessorsNth(d, e.v).some THEN Panic
         ELSE IF ~AccessorMin(a.v).some THEN Panic
         ELSE IF ~FromValue3(AccessorMin(a.v).v).ok THEN Panic
         ELSE IF ~AccessorMax(a.v).some THEN Panic
         ELSE IF ~FromValue3(AccessorMax(a.v).v).ok THEN Panic
         ELSE Ret(Some([min |-> FromValue3(AccessorMin(a.v).v).v,
                        max |-> FromValue3(AccessorMax(a.v).v).v]))
    ELSE Ret(None)

\* position_bounds with ok() in place of unwrap(): missing or malformed
\* bounds give None.
position_bounds_lenient(d, p) ==
    LET e == MapGet(PrimJson(d, p).attributes, Valid(Positions)) IN
    IF e.some
    THEN LET a == AccessorsNth(d, e.v) IN
         IF ~a.some THEN Panic
         ELSE IF ~AccessorMin(a.v).some \/ ~AccessorMax(a.v).some THEN Ret(None)
         ELSE IF ~FromValue3(AccessorMin(a.v).v).ok THEN Ret(None)
         ELSE IF ~FromValue3(AccessorMax(a.v).v).ok THEN Ret(None)
         ELSE Ret(Some([min |-> FromValue3(AccessorMin(a.v).v).v,
                        max |-> FromValue3(AccessorMax(a.v).v).v]))
    ELSE Ret(None)

\* Primitive::position_bounds.
position_bounds(d, p) ==
    LET e == MapGet(PrimJson(d, p).attributes, Valid(Positions)) IN
    IF e.some
    THEN LET a == AccessorsNth(d, e.v) IN
         IF ~a.some THEN Panic
         ELSE IF ~AccessorMin(a.v).some THEN Panic
         ELSE IF ~FromValue3(AccessorMin(a.v).v).ok THEN Panic
         ELSE IF ~AccessorMax(a.v).some THEN Panic
         ELSE IF ~FromValue3(AccessorMax(a.v).v).ok THEN Panic
         ELSE LET min == FromValue3(AccessorMin(a.v).v).v
                  max == FromValue3(AccessorMax(a.v).v).v
              IN  Ret(Some([min |-> <<min[1], min[2], min[3]>>,
                            max |-> <<max[1], max[2], max[3]>>]))
    ELSE Ret(None)

\* get looking up Positions whatever semantic is asked for.
get_positions(d, p, semantic) ==
    LET e == MapGet(PrimJson(d, p).attributes, Valid(Positions)) IN
    IF e.some
    THEN IF AccessorsNth(d, e.v).some THEN Ret(Some(AccessorsNth(d, e.v).v))
         ELSE Panic
    ELSE Ret(None)

\* Primitive::get.
get(d, p, semantic) ==
    LET e == MapGet(PrimJson(d, p).attributes, Valid(semantic)) IN
    IF e.some
    THEN IF AccessorsNth(d, e.v).some THEN Ret(Some(AccessorsNth(d, e.v).v))
         ELSE Panic
    ELSE Ret(None)

\* Primitive::indices.
indices(d, p) ==
    LET e == PrimJson(d, p).indices IN
    IF e.some
    THEN IF AccessorsNth(d, e.v).some THEN Ret(Some(AccessorsNth(d, e.v).v))
         ELSE Panic
    ELSE Ret(None)

\* material with the default in place of a reference that does not resolve.
material_or_default(d, p) ==
    LET e == PrimJson(d, p).material IN
    IF e.some /\ MaterialsNth(d, e.v).some THEN Ret(MaterialsNth(d, e.v).v)
    ELSE Ret(DefaultMaterial)

\* Primitive::material.
material(d, p) ==
    LET e == PrimJson(d, p).material IN
    IF e.some
    THEN IF MaterialsNth(d, e.v).some THEN Ret(MaterialsNth(d, e.v).v)
         ELSE Panic
    ELSE Ret(DefaultMaterial)

(***************************************************************************)
(* Documents.                                                              *)
(***************************************************************************)
\* A bounds field of accessor i: absent, or a JSON value of one of the
\* shapes below.  The numbers differ from accessor to accessor and between
\* min and max.
Exact3(b) == JArr(<<JNum(b + 1), JNum(b + 2), JNum(b + 3)>>)
Inexact3(b) == JArr(<<JNum(F32Exact + 1 + 2 * b), JNum(b + 2), JNum(-(F32Exact + 3))>>)
BoundShapes(b) ==
    { None,
      Some(Exact3(b)),
      Some(Inexact3(b)),
      Some(JArr(<<JNum(b + 1), JNum(b + 2)>>)),
      Some(JArr(<<JNum(b + 1), JNum(b + 2), JNum(b + 3), JNum(b + 4)>>)),
      Some(JArr(<<JNum(b + 1), JStr, JNum(b + 3)>>)),
      Some(JNum(b + 1)) }

GoodAccessor(i) == [min |-> Some(Exact3(10 * i)), max |-> Some(Exact3(10 * i + 5))]
AnyAccessor(i) ==
    {[min |-> mn, max |-> mx] : mn \in BoundShapes(10 * i), mx \in BoundShapes(10 * i + 5)}

GoodAccessors == [i \in 1..NumAccessors |-> GoodAccessor(i - 1)]
\* Accessor arrays whose last accessor has bounds of any shape.
AnyAccessors ==
    {[i \in 1..NumAccessors |-> IF i = NumAccessors THEN a ELSE GoodAccessor(i - 1)] :
        a \in AnyAccessor(NumAccessors - 1)}

Materials == [i \in 1..NumMaterials |-> [id |-> i]]

\* References into an array of length n: every element, and one beyond.
Refs(n) == 0..n
OptRefs(n) == {None} \cup {Some(i) : i \in Refs(n)}
\* The references of the entries of the larger maps: the last element, and
\* one beyond.
EndRefs(n) == {n - 1, n}

RECURSIVE AttrMaps(_, _)
\* Sequences of at most n of the entries E.
AttrMaps(E, n) ==
    IF n = 0 THEN {<<>>}
    ELSE LET S == AttrMaps(E, n - 1) IN
         S \cup {Append(m, e) : m \in {x \in S : Len(x) = n - 1}, e \in E}
\* Keys of a map are distinct.
DistinctKeys(m) == \A i, j \in 1..Len(m) : i # j => m[i].key # m[j].key
\* Attribute maps over every key, in every iteration order.
Entries == {[key |-> k, index |-> i] : k \in Keys, i \in EndRefs(NumAccessors)}
AllAttrMaps == {m \in AttrMaps(Entries, MaxAttrs) : DistinctKeys(m)}
\* Attribute maps of Positions and Normals over every reference.
PositionEntries ==
    {[key |-> k, index |-> i] : k \in {Valid(Positions), Valid(Normals)},
                                i \in Refs(NumAccessors)}
PositionMaps == {m \in AttrMaps(PositionEntries, MaxAttrs) : DistinctKeys(m)}

Primitive(attrs, ind, mat) == [attributes |-> attrs, indices |-> ind, material |-> mat]
Document(accs, prims) ==
    [accessors |-> accs, materials |-> Materials,
     meshes |-> <<[primitives |-> prims]>>,
     nodes |-> <<>>, scenes |-> <<>>]

\* Bounds of every shape under a Positions reference.
BoundsDocs ==
    {Document(accs, <<Primitive(m, None, None)>>) : accs \in AnyAccessors, m \in PositionMaps}
\* Every attribute map over well-formed accessors.
AttrDocs ==
    {Document(GoodAccessors, <<Primitive(m, None, None)>>) : m \in AllAttrMaps}
\* Every indices and material reference.
RefDocs ==
    {Document(GoodAccessors, <<Primitive(<<>>, ind, mat)>>) :
        ind \in OptRefs(NumAccessors), mat \in OptRefs(NumMaterials)}
CallDocs == BoundsDocs \cup AttrDocs \cup RefDocs

(***************************************************************************)
(* A thread calling the methods of a primitive.                            *)
(***************************************************************************)
Readers == DOMAIN alive
PrimIndices(d) == 0..(Len(Prims(d)) - 1)

Call(r, op, p, s, res) ==
    /\ alive[r]
    /\ ret' = [reader |-> r, op |-> op, prim |-> p, sem |-> s, res |-> res]
    /\ alive' = [alive EXCEPT ![r] = (res # Panic)]
    /\ UNCHANGED <<doc, pit, ait, walk, build>>

CallPositionBounds ==
    \E r \in Readers, p \in PrimIndices(doc) :
        Call(r, "position_bounds", p, Positions, position_bounds(doc, p))

CallGet ==
    \E r \in Readers, p \in PrimIndices(doc), s \in Semantics :
        Call(r, "get", p, s, get(doc, p, s))

CallIndices ==
    \E r \in Readers, p \in PrimIndices(doc) :
        Call(r, "indices", p, Positions, indices(doc, p))

CallMaterial ==
    \E r \in Readers, p \in PrimIndices(doc) :
        Call(r, "material", p, Positions, material(doc, p))

NoCall == [reader |-> 0, op |-> "none", prim |-> 0, sem |-> Positions, res |-> NoRes]

\* No iterator constructed yet.
NoPrimitives == [made |-> FALSE, pos |-> 0, out |-> <<>>, ended |-> FALSE]
NoAttributes == [made |-> FALSE, prim |-> 0, pos |-> 0, out |-> <<>>, ended |-> FALSE]

\* The walk of iterate_gltf before its loop over the scenes: the scene and
\* the root within it the loop is at, the frames of iterate_node (a node and
\* the child its loop is at), and the nodes and primitives visited so far.
NoWalk ==
    [pc |-> "scenes", scene |-> 0, root |-> 0, stack |-> <<>>,
     visited |-> <<>>, prims |-> <<>>]

\* import_from_path before the import: no primitive iterated, no vertex
\* built.  panic names what stopped iterate_primitive, if anything did.
NoBuild ==
    [pc |-> "import", prim |-> 0, i |-> 0, vertices |-> <<>>, panic |-> "none"]

\* n threads over document d, before any call.
Start(d, n) ==
    /\ doc = d
    /\ ret = NoCall
    /\ alive = [r \in 1..n |-> TRUE]
    /\ pit = [r \in 1..n |-> NoPrimitives]
    /\ ait = [r \in 1..n |-> NoAttributes]
    /\ walk = NoWalk
    /\ build = NoBuild

Init == \E d \in CallDocs : Start(d, 1)

Next ==
    \/ CallPositionBounds
    \/ CallGet
    \/ CallIndices
    \/ CallMaterial

Spec == Init /\ [][Next]_vars

(***************************************************************************)
(* The iterators.                                                          *)
(***************************************************************************)
\* Primitive::new(mesh, index, json), for the mesh the readers work on.
PrimitiveNew(d, j) == [mesh |-> 0, index |-> j, json |-> PrimJson(d, j)]

\* The match of Attributes::next with the set number of a set-indexed
\* semantic lost.
AttributeOf_noset(semantic, accessor) ==
    IF semantic.name \in SetNames
    THEN [variant |-> semantic.name, set |-> 0, accessor |-> accessor]
    ELSE [variant |-> semantic.name, accessor |-> accessor]

\* The match of Attributes::next: the Attribute variant of a semantic.
AttributeOf(semantic, accessor) ==
    IF semantic.name \in SetNames
    THEN [variant |-> semantic.name, set |-> semantic.set, accessor |-> accessor]
    ELSE [variant |-> semantic.name, accessor |-> accessor]

\* Mesh::primitives: a fresh iterator over the mesh's primitives.
primitives == [made |-> TRUE, pos |-> 0, out |-> <<>>, ended |-> FALSE]

\* Primitives::next over the slice iterator without enumerate(): every
\* primitive is given index 0.
primitives_next_unnumbered(d, it) ==
    IF it.pos < Len(Prims(d))
    THEN LET p == [mesh |-> 0, index |-> 0, json |-> PrimJson(d, it.pos)] IN
         [it |-> [it EXCEPT !.pos = @ + 1, !.out = Append(@, p)], res |-> Ret(Some(p))]
    ELSE [it |-> [it EXCEPT !.ended = TRUE], res |-> Ret(None)]

\* Primitives::next on iterator it: the iterator after the call and the
\* value returned.  out records what the iterator has yielded.
primitives_next(d, it) ==
    IF it.pos < Len(Prims(d))
    THEN [it |-> [it EXCEPT !.pos = @ + 1, !.out = Append(@, PrimitiveNew(d, it.pos))],
          res |-> Ret(Some(PrimitiveNew(d, it.pos)))]
    ELSE [it |-> [it EXCEPT !.ended = TRUE], res |-> Ret(None)]

\* Primitive::attributes on primitive p: a fresh iterator over its map.
attributes(p) == [made |-> TRUE, prim |-> p, pos |-> 0, out |-> <<>>, ended |-> FALSE]

\* Attributes::next on iterator it.  The map iterator has advanced when an
\* unwrap() panics.
attributes_next(d, it) ==
    LET attrs == PrimJson(d, it.prim).attributes IN
    IF it.pos >= Len(attrs)
    THEN [it |-> [it EXCEPT !.ended = TRUE], res |-> Ret(None)]
    ELSE LET e == attrs[it.pos + 1]
             adv == [it EXCEPT !.pos = @ + 1]
         IN  IF ~e.key.valid THEN [it |-> adv, res |-> Panic]
             ELSE IF ~AccessorsNth(d, e.index).some THEN [it |-> adv, res |-> Panic]
             ELSE LET a == AttributeOf(e.key.sem, AccessorsNth(d, e.index).v) IN
                  [it |-> [adv EXCEPT !.out = Append(@, a)], res |-> Ret(Some(a))]

\* Reader r calls mesh.primitives().  The loop over the previous iterator,
\* with the primitive and the Attributes iterator it held, is over.
MeshPrimitives(r) ==
    /\ alive[r]
    /\ pit' = [pit EXCEPT ![r] = primitives]
    /\ ait' = [ait EXCEPT ![r] = NoAttributes]
    /\ UNCHANGED <<doc, ret, alive, walk, build>>

\* Reader r steps its Primitives iterator; the primitive of the previous
\* step is dropped, and with it the Attributes iterator that borrowed it.
PrimitivesNext(r) ==
    /\ alive[r]
    /\ pit[r].made
    /\ pit' = [pit EXCEPT ![r] = primitives_next(doc, pit[r]).it]
    /\ ait' = [ait EXCEPT ![r] = NoAttributes]
    /\ UNCHANGED <<doc, ret, alive, walk, build>>

\* Reader r calls attributes() on the primitive its loop is at.
PrimitiveAttributes(r) ==
    /\ alive[r]
    /\ pit[r].out # <<>>
    /\ ~pit[r].ended
    /\ ait' = [ait EXCEPT ![r] = attributes(pit[r].out[Len(pit[r].out)].index)]
    /\ UNCHANGED <<doc, ret, alive, pit, walk, build>>

\* Attributes::next with the cursor kept in the primitive, not in the
\* iterator: a step moves every iterator over the same primitive.
AttributesNext_shared(r) ==
    /\ alive[r]
    /\ ait[r].made
    /\ ait' = [q \in Readers |->
                 IF q = r THEN attributes_next(doc, ait[r]).it
                 ELSE IF ait[q].made /\ ait[q].prim = ait[r].prim
                      THEN [ait[q] EXCEPT !.pos = attributes_next(doc, ait[r]).it.pos]
                      ELSE ait[q]]
    /\ alive' = [alive EXCEPT ![r] = (attributes_next(doc, ait[r]).res # Panic)]
    /\ UNCHANGED <<doc, ret, pit, walk, build>>

\* Reader r steps its Attributes iterator.
AttributesNext(r) ==
    /\ alive[r]
    /\ ait[r].made
    /\ ait' = [ait EXCEPT ![r] = attributes_next(doc, ait[r]).it]
    /\ alive' = [alive EXCEPT ![r] = (attributes_next(doc, ait[r]).res # Panic)]
    /\ UNCHANGED <<doc, ret, pit, walk, build>>

\* A primitive that is well-formed, different for each position j.
BasePrimitive(j) ==
    Primitive(<<[key |-> Valid(Positions), index |-> 0]>>, None, Some(j % NumMaterials))
\* Meshes of 1..MaxPrims primitives whose last primitive has any attribute map.
IterDocs ==
    {Document(GoodAccessors,
              [j \in 1..n |-> IF j = n THEN Primitive(m, None, None) ELSE BasePrimitive(j - 1)]) :
        n \in 1..MaxPrims, m \in AllAttrMaps}

IterInit == \E d \in IterDocs : Start(d, NumReaders)

IterNext ==
    \/ \E r \in Readers : MeshPrimitives(r)
    \/ \E r \in Readers : PrimitivesNext(r)
    \/ \E r \in Readers : PrimitiveAttributes(r)
    \/ \E r \in Readers : AttributesNext(r)

IterSpec == IterInit /\ [][IterNext]_vars

\* Meshes of 0..MaxPrims primitives, each with any material reference.
PrimsDocs ==
    {Document(GoodAccessors, ps) :
        ps \in UNION {[1..n -> {Primitive(<<[key |-> Valid(Positions), index |-> 0]>>, None, mat) :
                                   mat \in OptRefs(NumMaterials)}] : n \in 0..MaxPrims}}

PrimsInit == \E d \in PrimsDocs : Start(d, NumReaders)

PrimsNext ==
    \/ \E r \in Readers : MeshPrimitives(r)
    \/ \E r \in Readers : PrimitivesNext(r)

\* The Primitives iterators of the readers alone.
PrimsSpec == PrimsInit /\ [][PrimsNext]_vars

(***************************************************************************)
(* Concurrent readers: every method and both iterators, interleaved.       *)
(***************************************************************************)
\* Full maps that start with a Positions entry on the first accessor; the
\* other entries may be out of range.
ConcMaps ==
    {m \in PositionMaps :
        Len(m) = MaxAttrs /\ m[1] = [key |-> Valid(Positions), index |-> 0]}
ConcDocs ==
    {Document(GoodAccessors,
              [j \in 1..n |-> IF j = n THEN Primitive(m, None, Some(0)) ELSE BasePrimitive(j - 1)]) :
        n \in 1..MaxPrims, m \in ConcMaps}

ConcInit == \E d \in ConcDocs : Start(d, NumReaders)

ConcNext ==
    \/ CallPositionBounds
    \/ CallGet
    \/ CallIndices
    \/ CallMaterial
    \/ \E r \in Readers : MeshPrimitives(r)
    \/ \E r \in Readers : PrimitivesNext(r)
    \/ \E r \in Readers : PrimitiveAttributes(r)
    \/ \E r \in Readers : AttributesNext(r)

ConcSpec == ConcInit /\ [][ConcNext]_vars

(***************************************************************************)
(* The depth-first walk of iterate_gltf and iterate_node.                  *)
(***************************************************************************)
\* node.children(): the child nodes, by index.
Children(d, n) == d.nodes[n + 1].children

\* The frames the model lets the recursion of iterate_node reach: more than
\* any forest over the node array needs.  Beyond it the thread's stack is
\* exhausted.
StackLimit == NumNodes + 1

\* The body of iterate_node up to its loop over the children: the node is
\* visited, and the primitives of its mesh, in order.
EnterNode(d, w, n) ==
    LET m == d.nodes[n + 1].mesh
        ps == IF m.some
              THEN [j \in 1..Len(d.meshes[m.v + 1].primitives) |-> [mesh |-> m.v, index |-> j - 1]]
              ELSE <<>>
    IN  [w EXCEPT !.stack = Append(@, [node |-> n, child |-> 0]),
                  !.visited = Append(@, n),
                  !.prims = @ \o ps]

\* iterate_gltf: the loop over a scene's nodes calls iterate_node.
IterateGltfRoot ==
    /\ walk.pc = "scenes"
    /\ walk.stack = <<>>
    /\ walk.scene < Len(doc.scenes)
    /\ walk.root < Len(doc.scenes[walk.scene + 1].nodes)
    /\ walk' = EnterNode(doc, [walk EXCEPT !.root = @ + 1],
                         doc.scenes[walk.scene + 1].nodes[walk.root + 1])
    /\ UNCHANGED <<doc, ret, alive, pit, ait, build>>

\* iterate_gltf: a scene's nodes are exhausted, on to the next scene.
IterateGltfNextScene ==
    /\ walk.pc = "scenes"
    /\ walk.stack = <<>>
    /\ walk.scene < Len(doc.scenes)
    /\ walk.root >= Len(doc.scenes[walk.scene + 1].nodes)
    /\ walk' = [walk EXCEPT !.scene = @ + 1, !.root = 0]
    /\ UNCHANGED <<doc, ret, alive, pit, ait, build>>

\* iterate_gltf: the scenes are exhausted.
IterateGltfDone ==
    /\ walk.pc = "scenes"
    /\ walk.stack = <<>>
    /\ walk.scene >= Len(doc.scenes)
    /\ walk' = [walk EXCEPT !.pc = "done"]
    /\ UNCHANGED <<doc, ret, alive, pit, ait, build>>

\* iterate_node recursing into the first child at every turn of its loop.
IterateNodeChild_first ==
    /\ walk.pc = "scenes"
    /\ walk.stack # <<>>
    /\ Len(walk.stack) < StackLimit
    /\ LET top == walk.stack[Len(walk.stack)] IN
        /\ top.child < Len(Children(doc, top.node))
        /\ walk' = EnterNode(doc,
                             [walk EXCEPT !.stack[Len(walk.stack)].child = @ + 1],
                             Children(doc, top.node)[1])
    /\ UNCHANGED <<doc, ret, alive, pit, ait, build>>

\* iterate_node: the loop over the children calls iterate_node on the next.
IterateNodeChild ==
    /\ walk.pc = "scenes"
    /\ walk.stack # <<>>
    /\ Len(walk.stack) < StackLimit
    /\ LET top == walk.stack[Len(walk.stack)] IN
        /\ top.child < Len(Children(doc, top.node))
        /\ walk' = EnterNode(doc,
                             [walk EXCEPT !.stack[Len(walk.stack)].child = @ + 1],
                             Children(doc, top.node)[top.child + 1])
    /\ UNCHANGED <<doc, ret, alive, pit, ait, build>>

\* iterate_node: the children are exhausted, the call returns.
IterateNodeReturn ==
    /\ walk.pc = "scenes"
    /\ walk.stack # <<>>
    /\ LET top == walk.stack[Len(walk.stack)] IN
        /\ top.child >= Len(Children(doc, top.node))
        /\ walk' = [walk EXCEPT !.stack = SubSeq(@, 1, Len(@) - 1)]
    /\ UNCHANGED <<doc, ret, alive, pit, ait, build>>

\* iterate_node: a further call finds the stack exhausted and the process
\* is killed.
IterateNodeOverflow ==
    /\ walk.pc = "scenes"
    /\ Len(walk.stack) >= StackLimit
    /\ LET top == walk.stack[Len(walk.stack)] IN
        top.child < Len(Children(doc, top.node))
    /\ walk' = [walk EXCEPT !.pc = "overflow"]
    /\ UNCHANGED <<doc, ret, alive, pit, ait, build>>

\* Sequences without repetition of at most n elements of S.
RECURSIVE Lists(_, _)
Lists(S, n) ==
    IF n = 0 THEN {<<>>}
    ELSE LET L == Lists(S, n - 1) IN
         L \cup {Append(l, x) : l \in {y \in L : Len(y) = n - 1}, x \in S}
NoRepeat(l) == \A i, j \in 1..Len(l) : i # j => l[i] # l[j]
ChildLists == {l \in Lists(0..(NumNodes - 1), MaxChildren) : NoRepeat(l)}

\* Node arrays: any child lists (trees, shared children, cycles); every
\* other node has the mesh.
NodeArrays ==
    {[i \in 1..NumNodes |->
        [mesh |-> IF i % 2 = 1 THEN Some(0) ELSE None, children |-> c[i]]] :
        c \in [1..NumNodes -> ChildLists]}
\* Scene arrays: 1..MaxScenes scenes of one or more root nodes each, of at
\* most MaxRoots roots together.  A node may be a root of two scenes.
RootLists == {l \in ChildLists : l # <<>>}
RECURSIVE Roots(_)
Roots(ss) == IF ss = <<>> THEN <<>> ELSE Head(ss).nodes \o Roots(Tail(ss))
SceneArrays ==
    {ss \in UNION {[1..n -> {[nodes |-> l] : l \in RootLists}] : n \in 1..MaxScenes} :
        Len(Roots(ss)) <= MaxRoots}

WalkDocs ==
    {[accessors |-> GoodAccessors, materials |-> Materials,
      meshes |-> <<[primitives |-> [j \in 1..MaxPrims |-> BasePrimitive(j - 1)]]>>,
      nodes |-> ns, scenes |-> ss] : ns \in NodeArrays, ss \in SceneArrays}

WalkInit == \E d \in WalkDocs : Start(d, 1)

WalkNext ==
    \/ IterateGltfRoot
    \/ IterateGltfNextScene
    \/ IterateGltfDone
    \/ IterateNodeChild
    \/ IterateNodeReturn
    \/ IterateNodeOverflow

\* The walk is one thread running to completion: it takes its next step
\* whenever it has one.
WalkSpec == WalkInit /\ [][WalkNext]_vars /\ WF_vars(WalkNext)

(***************************************************************************)
(* import_from_path and iterate_primitive: the vertices of a primitive     *)
(* built from its attribute sequences.                                     *)
(***************************************************************************)
\* An accessor of vertex data: its element count and the representation of
\* its components.
Reprs == {"F32", "U16", "U8"}
VertexAccessor(c, t) == [count |-> c, repr |-> t]
\* Accessor::count.
Count(a) == a.json.count
\* The number of elements the decoding iterator over accessor a yields.
SequenceLen(a) == Count(a)

\* The attribute sequences iterate_primitive consumes after the positions,
\* in its order, and the semantic each one is looked up by.
Stages == <<"normals", "tangents", "tex_coords", "colors", "joints", "weights">>
StageSet == {Stages[k] : k \in 1..Len(Stages)}
StageSemantic(pc) ==
    CASE pc = "normals" -> Normals
      [] pc = "tangents" -> Tangents
      [] pc = "tex_coords" -> Sem("TexCoords", 0)
      [] pc = "colors" -> Sem("Colors", 0)
      [] pc = "joints" -> Sem("Joints", 0)
      [] pc = "weights" -> Sem("Weights", 0)
\* What follows a stage: the next sequence, and the indices after the last.
AfterStage(pc) ==
    LET k == CHOOSE j \in 1..Len(Stages) : Stages[j] = pc IN
    IF k < Len(Stages) THEN Stages[k + 1] ELSE "indices"
\* The arm of the match over the decoded representation that does not reach
\* unimplemented!(): Colors::RgbF32, Joints::U16, Weights::F32.  The other
\* sequences are read in one representation.
Implemented(pc, repr) ==
    CASE pc = "colors" -> repr = "F32"
      [] pc = "joints" -> repr = "U16"
      [] pc = "weights" -> repr = "F32"
      [] OTHER -> TRUE

\* Importer::import succeeds on the documents that keep the invariants of
\* the data model: every reference of a primitive resolves, every semantic
\* is a known one, and the accessor of every attribute of a primitive with
\* Positions has the count of the Positions accessor.
Importable(d) ==
    \A p \in 0..(Len(Prims(d)) - 1) :
        LET pj == PrimJson(d, p)
            attrs == pj.attributes
        IN  /\ \A j \in 1..Len(attrs) :
                  attrs[j].key.valid /\ attrs[j].index < Len(d.accessors)
            /\ pj.indices.some => pj.indices.v < Len(d.accessors)
            /\ pj.material.some => pj.material.v < Len(d.materials)
            /\ \A j, k \in 1..Len(attrs) :
                  /\ attrs[j].key = Valid(Positions)
                  /\ attrs[j].index < Len(d.accessors)
                  /\ attrs[k].index < Len(d.accessors)
                  => d.accessors[attrs[k].index + 1].count =
                     d.accessors[attrs[j].index + 1].count

\* import_from_path: the import succeeds and iterate_gltf runs.
ImportOk ==
    /\ build.pc = "import"
    /\ Importable(doc)
    /\ build' = [build EXCEPT !.pc = "imported"]
    /\ UNCHANGED <<doc, ret, alive, pit, ait, walk>>

\* import_from_path: the import fails and nothing is iterated.
ImportErr ==
    /\ build.pc = "import"
    /\ ~Importable(doc)
    /\ build' = [build EXCEPT !.pc = "rejected"]
    /\ UNCHANGED <<doc, ret, alive, pit, ait, walk>>

\* iterate_primitive on primitive p up to the normals: the material is
\* resolved and one vertex is collected for each position.
IteratePrimitive ==
    /\ build.pc \in {"imported", "done"}
    /\ \E p \in PrimIndices(doc) :
        LET mat == material(doc, p)
            pos == get(doc, p, Positions)
        IN  build' =
              IF mat.t = "panic" \/ pos.t = "panic" \/ ~pos.v.some
              THEN [NoBuild EXCEPT !.pc = "panic", !.prim = p, !.panic = "unwrap"]
              ELSE [pc |-> "normals", prim |-> p, i |-> 0,
                    vertices |-> [j \in 1..SequenceLen(pos.v.v) |-> {"position"}],
                    panic |-> "none"]
    /\ UNCHANGED <<doc, ret, alive, pit, ait, walk>>

\* The sequence of the stage iterate_primitive is at, as the accessor of
\* Primitive::get.
StageAttr == get(doc, build.prim, StageSemantic(build.pc))
StageReady ==
    /\ build.pc \in StageSet
    /\ StageAttr.t = "ret"
    /\ StageAttr.v.some
    /\ Implemented(build.pc, StageAttr.v.v.json.repr)

\* iterate_primitive: the attribute of the stage is absent.
StageSkip ==
    /\ build.pc \in StageSet
    /\ build.i = 0
    /\ StageAttr.t = "panic" \/ ~StageAttr.v.some
    /\ build' = IF StageAttr.t = "panic"
                THEN [build EXCEPT !.pc = "panic", !.panic = "unwrap"]
                ELSE [build EXCEPT !.pc = AfterStage(build.pc)]
    /\ UNCHANGED <<doc, ret, alive, pit, ait, walk>>

\* iterate_primitive: the sequence is of a representation whose arm is
\* unimplemented!().
StageUnimplemented ==
    /\ build.pc \in StageSet
    /\ build.i = 0
    /\ StageAttr.t = "ret"
    /\ StageAttr.v.some
    /\ ~Implemented(build.pc, StageAttr.v.v.json.repr)
    /\ build' = [build EXCEPT !.pc = "panic", !.panic = "unimplemented"]
    /\ UNCHANGED <<doc, ret, alive, pit, ait, walk>>

\* The loop over enumerate() counting from one.
IterateWrite_from_one ==
    /\ StageReady
    /\ build.i < SequenceLen(StageAttr.v.v)
    /\ build' = IF build.i + 1 < Len(build.vertices)
                THEN [build EXCEPT !.vertices[build.i + 2] = @ \cup {build.pc},
                                   !.i = @ + 1]
                ELSE [build EXCEPT !.pc = "panic", !.panic = "index"]
    /\ UNCHANGED <<doc, ret, alive, pit, ait, walk>>

\* iterate_primitive: element i of the sequence is written into vertex i;
\* indexing the vertices at or beyond their length panics.
IterateWrite ==
    /\ StageReady
    /\ build.i < SequenceLen(StageAttr.v.v)
    /\ build' = IF build.i < Len(build.vertices)
                THEN [build EXCEPT !.vertices[build.i + 1] = @ \cup {build.pc},
                                   !.i = @ + 1]
                ELSE [build EXCEPT !.pc = "panic", !.panic = "index"]
    /\ UNCHANGED <<doc, ret, alive, pit, ait, walk>>

\* iterate_primitive: the sequence is exhausted, on to the next.
StageEnd ==
    /\ StageReady
    /\ build.i = SequenceLen(StageAttr.v.v)
    /\ build' = [build EXCEPT !.pc = AfterStage(build.pc), !.i = 0]
    /\ UNCHANGED <<doc, ret, alive, pit, ait, walk>>

\* iterate_primitive: the indices are collected and the call returns.
IterateIndices ==
    /\ build.pc = "indices"
    /\ build' = IF indices(doc, build.prim).t = "panic"
                THEN [build EXCEPT !.pc = "panic", !.panic = "unwrap"]
                ELSE [build EXCEPT !.pc = "done"]
    /\ UNCHANGED <<doc, ret, alive, pit, ait, walk>>

\* Accessor arrays of vertex data: the last accessor has any count and
\* representation, the others the largest count as floats.
VertexAccessors ==
    {[i \in 1..NumAccessors |->
        IF i = NumAccessors THEN VertexAccessor(c, t) ELSE VertexAccessor(MaxCount, "F32")] :
        c \in 1..MaxCount, t \in Reprs}
\* The entries of the stages k.. of a choice f of accessors for some stages.
RECURSIVE StageEntries(_, _)
StageEntries(f, k) ==
    IF k > Len(Stages) THEN <<>>
    ELSE (IF k \in DOMAIN f
          THEN <<[key |-> Valid(StageSemantic(Stages[k])), index |-> f[k]]>>
          ELSE <<>>) \o StageEntries(f, k + 1)
\* Attribute maps of vertex data: Positions absent or on any accessor, in
\* range or not, and at most MaxAttrs of the other sequences, each on the
\* last accessor or out of range.
VertexMaps ==
    {(IF pos.some THEN <<[key |-> Valid(Positions), index |-> pos.v]>> ELSE <<>>)
        \o StageEntries(f, 1) :
        pos \in OptRefs(NumAccessors),
        f \in UNION {[S -> EndRefs(NumAccessors)] :
                        S \in {T \in SUBSET (1..Len(Stages)) : Cardinality(T) <= MaxAttrs}}}
\* A mesh of a well-formed primitive and one of any attribute map.
BuildDocs ==
    {[accessors |-> accs, materials |-> Materials,
      meshes |-> <<[primitives |-> <<BasePrimitive(0), Primitive(m, Some(0), None)>>]>>,
      nodes |-> <<>>, scenes |-> <<>>] :
        accs \in VertexAccessors, m \in VertexMaps}

BuildInit == \E d \in BuildDocs : Start(d, 1)

BuildNext ==
    \/ ImportOk
    \/ ImportErr
    \/ IteratePrimitive
    \/ StageSkip
    \/ StageUnimplemented
    \/ IterateWrite
    \/ StageEnd
    \/ IterateIndices

BuildSpec == BuildInit /\ [][BuildNext]_vars

(***************************************************************************)
(* What the claims speak of, stated on the document itself.                *)
(***************************************************************************)
CalledPrim == PrimJson(doc, ret.prim)
\* The attribute map of the called primitive has an entry for semantic s.
HasEntry(s) ==
    \E i \in 1..Len(CalledPrim.attributes) : CalledPrim.attributes[i].key = Valid(s)
\* The accessor index that entry holds.
EntryIndex(s) ==
    LET i == CHOOSE i \in 1..Len(CalledPrim.attributes) :
                 CalledPrim.attributes[i].key = Valid(s)
    IN  CalledPrim.attributes[i].index
\* A bounds field that is present and an array of exactly three numbers.
WellFormed3(b) ==
    /\ b.some
    /\ b.v.k = "arr"
    /\ Len(b.v.e) = 3
    /\ \A i \in 1..3 : b.v.e[i].k = "num"
Declared(b) == <<b.v.e[1].n, b.v.e[2].n, b.v.e[3].n>>
Rounded(b) == <<AsF32(b.v.e[1].n), AsF32(b.v.e[2].n), AsF32(b.v.e[3].n)>>
AccessorView(i) == [index |-> i, json |-> doc.accessors[i + 1]]
\* The Positions entry of the called primitive names an accessor of the document.
PositionsResolved == HasEntry(Positions) /\ EntryIndex(Positions) < Len(doc.accessors)
PositionsAccessor == doc.accessors[EntryIndex(Positions) + 1]

\* C1 as claimed: position_bounds returns None exactly when the primitive has
\* no Positions entry, and for a Positions accessor with 3-component min and
\* max it returns bounds equal, component by component, to the declared ones.
C1_DeclaredBounds ==
    ret.op = "position_bounds" =>
        /\ (ret.res = Ret(None)) <=> ~HasEntry(Positions)
        /\ ( /\ PositionsResolved
             /\ WellFormed3(PositionsAccessor.min)
             /\ WellFormed3(PositionsAccessor.max) )
           => ret.res = Ret(Some([min |-> Declared(PositionsAccessor.min),
                                  max |-> Declared(PositionsAccessor.max)]))

\* C1 as amended: position_bounds returns None exactly when the primitive has
\* no Positions entry, and for a Positions accessor with 3-component min and
\* max it returns that accessor's declared min and max, each component
\* converted to f32 (equal to the declared number when f32 represents it).
C1_RoundedBounds ==
    ret.op = "position_bounds" =>
        /\ (ret.res = Ret(None)) <=> ~HasEntry(Positions)
        /\ ( /\ PositionsResolved
             /\ WellFormed3(PositionsAccessor.min)
             /\ WellFormed3(PositionsAccessor.max) )
           => /\ ret.res = Ret(Some([min |-> Rounded(PositionsAccessor.min),
                                     max |-> Rounded(PositionsAccessor.max)]))
              /\ \A i \in 1..3 :
                    /\ -F32Exact <= Declared(PositionsAccessor.min)[i]
                    /\ Declared(PositionsAccessor.min)[i] <= F32Exact
                    => ret.res.v.v.min[i] = Declared(PositionsAccessor.min)[i]

\* position_bounds returned the bounds of an accessor other than the first,
\* one component of which f32 does not represent.
C1_Witness ==
    /\ ret.op = "position_bounds"
    /\ ret.res.t = "ret"
    /\ ret.res.v.some
    /\ EntryIndex(Positions) > 0
    /\ Len(CalledPrim.attributes) > 1
    /\ ret.res.v.v.min # Declared(PositionsAccessor.min)
    /\ ret.res.v.v.max = Declared(PositionsAccessor.max)

\* C2: get(semantic) returns None, without panicking, when the semantic is
\* not a key of the attribute map; it returns the accessor at the mapped
\* index when it is; and the result is the one the same call gives on the
\* primitive stripped of every other semantic.
C2_GetBySemantic ==
    ret.op = "get" =>
        /\ ~HasEntry(ret.sem) => ret.res = Ret(None)
        /\ HasEntry(ret.sem) /\ EntryIndex(ret.sem) < Len(doc.accessors)
           => ret.res = Ret(Some(AccessorView(EntryIndex(ret.sem))))
        /\ LET only == SelectSeq(CalledPrim.attributes, LAMBDA e : e.key = Valid(ret.sem))
               alone == Document(doc.accessors,
                                 <<Primitive(only, CalledPrim.indices, CalledPrim.material)>>)
           IN  ret.res = get(alone, 0, ret.sem)

\* get found an accessor other than the first for a set-indexed semantic
\* behind another entry of the map.
C2_Witness ==
    /\ ret.op = "get"
    /\ ret.sem.name = "TexCoords"
    /\ Len(CalledPrim.attributes) = 2
    /\ CalledPrim.attributes[2].key = Valid(ret.sem)
    /\ ret.res = Ret(Some(AccessorView(1)))

\* A call whose reference (the attribute entry it looks up, the indices or
\* the material field) is at or beyond the length of the document array.
OutOfRangeCall ==
    \/ /\ ret.op = "get"
       /\ HasEntry(ret.sem)
       /\ EntryIndex(ret.sem) >= Len(doc.accessors)
    \/ /\ ret.op = "position_bounds"
       /\ HasEntry(Positions)
       /\ EntryIndex(Positions) >= Len(doc.accessors)
    \/ /\ ret.op = "indices"
       /\ CalledPrim.indices.some
       /\ CalledPrim.indices.v >= Len(doc.accessors)
    \/ /\ ret.op = "material"
       /\ CalledPrim.material.some
       /\ CalledPrim.material.v >= Len(doc.materials)

\* C3 as claimed: a reference at or beyond the length of the document array
\* yields an explicit, recoverable index-resolution error; the call never
\* aborts the thread.
C3_IndexError ==
    OutOfRangeCall => ret.res.t = "err" /\ alive[ret.reader]

\* The Positions accessor of the called primitive exists and its min or max
\* is missing or is not an array of three numbers.
MalformedBounds ==
    /\ PositionsResolved
    /\ ~(WellFormed3(PositionsAccessor.min) /\ WellFormed3(PositionsAccessor.max))

\* C4: position_bounds panics when the Positions accessor lacks min or max,
\* or when either is not a 3-component numeric array; it returns neither
\* None nor a Bounds value.
C4_MalformedPanics ==
    ret.op = "position_bounds" /\ MalformedBounds
        => ret.res = Panic /\ ~alive[ret.reader]

\* position_bounds was called on a primitive whose Positions accessor has a
\* well-formed min and no max.
C4_Witness ==
    /\ ret.op = "position_bounds"
    /\ PositionsResolved
    /\ WellFormed3(PositionsAccessor.min)
    /\ ~PositionsAccessor.max.some
    /\ ret.res = Panic

\* C5 as claimed: the bounds operation of an unvalidated document returns an
\* absent result, not a panic, when the Positions accessor lacks min or max.
C5_CheckedBounds ==
    /\ ret.op = "position_bounds"
    /\ PositionsResolved
    /\ ~(PositionsAccessor.min.some /\ PositionsAccessor.max.some)
    => ret.res = Ret(None)

\* C6: material returns the default material exactly when the primitive has
\* no material reference, and the material at the referenced index when the
\* reference names one; a present reference never yields the default.
C6_MaterialOrDefault ==
    ret.op = "material" =>
        /\ (ret.res = Ret(DefaultMaterial)) <=> ~CalledPrim.material.some
        /\ CalledPrim.material.some /\ CalledPrim.material.v < Len(doc.materials)
           => ret.res = Ret([index |-> Some(CalledPrim.material.v),
                             json |-> doc.materials[CalledPrim.material.v + 1]])

\* material resolved a reference to a material other than the first.
C6_Witness ==
    /\ ret.op = "material"
    /\ CalledPrim.material = Some(1)
    /\ ret.res.t = "ret"
    /\ ret.res.v.index = Some(1)


\* The attribute map an Attributes iterator runs over.
IterAttrs(it) == PrimJson(doc, it.prim).attributes
\* Every entry of the map has a valid semantic and an accessor index in range.
AllResolvable(attrs) ==
    \A j \in 1..Len(attrs) : attrs[j].key.valid /\ attrs[j].index < Len(doc.accessors)
\* Attribute a is the one entry e stands for: the variant of e's semantic,
\* its set number if it has one, and the accessor at e's index.
Matches(a, e) ==
    /\ a.variant = e.key.sem.name
    /\ a.accessor = AccessorView(e.index)
    /\ (e.key.sem.name \in {"Colors", "TexCoords", "Joints", "Weights"}) =
       ("set" \in DOMAIN a)
    /\ "set" \in DOMAIN a => a.set = e.key.sem.set
Yielded(it) == {it.out[i] : i \in 1..Len(it.out)}

\* C7: over a map of k entries with valid semantics and in-range indices, an
\* Attributes iterator yields k values and then the end of the sequence: one
\* per entry, with the entry's variant, set number and accessor, none skipped
\* and none twice; two iterators over the same primitive yield the same
\* collection.
C7_OnePerEntry ==
    \A r \in Readers :
        ait[r].made /\ AllResolvable(IterAttrs(ait[r])) =>
            LET attrs == IterAttrs(ait[r])
                out == ait[r].out
            IN  /\ Len(out) <= Len(attrs)
                /\ ait[r].ended => Len(out) = Len(attrs)
                /\ \A i \in 1..Len(out) : \E j \in 1..Len(attrs) : Matches(out[i], attrs[j])
                /\ \A i, j \in 1..Len(out) : i # j => out[i] # out[j]
                /\ ait[r].ended =>
                      \A j \in 1..Len(attrs) : \E i \in 1..Len(out) : Matches(out[i], attrs[j])
                /\ \A q \in Readers :
                      /\ ait[q].made
                      /\ ait[q].prim = ait[r].prim
                      /\ ait[q].ended
                      /\ ait[r].ended
                      => Yielded(ait[q]) = Yielded(ait[r]) /\ Len(ait[q].out) = Len(out)

\* Two iterators over the same two-entry map, one entry of it a set-indexed
\* semantic of set 1 on the second accessor, have both reached the end.
C7_Witness ==
    /\ ait[1].made /\ ait[2].made
    /\ ait[1].prim = ait[2].prim
    /\ ait[1].ended /\ ait[2].ended
    /\ AllResolvable(IterAttrs(ait[1]))
    /\ Len(ait[1].out) = 2
    /\ ait[1].out[1].variant = "Normals"
    /\ ait[1].out[2] = [variant |-> "Joints", set |-> 1, accessor |-> AccessorView(1)]

\* C8 as claimed: an entry whose semantic key is invalid is yielded as an
\* 'unrecognized' variant; enumeration does not abort.
C8_Unrecognized ==
    \A r \in Readers :
        /\ ait[r].made
        /\ ait[r].pos > 0
        /\ ~IterAttrs(ait[r])[ait[r].pos].key.valid
        => /\ alive[r]
           /\ ait[r].out # <<>>
           /\ ait[r].out[Len(ait[r].out)].variant = "Unrecognized"

\* The state an iterator is in after n calls of next and nothing else.
RECURSIVE AloneAttributes(_, _)
AloneAttributes(it, n) ==
    IF n = 0 THEN it ELSE AloneAttributes(attributes_next(doc, it).it, n - 1)
RECURSIVE AlonePrimitives(_, _)
AlonePrimitives(it, n) ==
    IF n = 0 THEN it ELSE AlonePrimitives(primitives_next(doc, it).it, n - 1)
\* The calls of next an iterator has taken: one per entry passed, and the
\* calls that returned the end of the sequence count once.
Calls(it) == it.pos + (IF it.ended THEN 1 ELSE 0)
\* What every reader holds is what it would hold had it run alone.
ResultsAlone ==
    /\ \A r \in Readers :
        /\ pit[r].made => pit[r] = AlonePrimitives(primitives, Calls(pit[r]))
        /\ ait[r].made => ait[r] = AloneAttributes(attributes(ait[r].prim), Calls(ait[r]))
    /\ ret.op = "get" => ret.res = get(doc, ret.prim, ret.sem)
    /\ ret.op = "indices" => ret.res = indices(doc, ret.prim)
    /\ ret.op = "material" => ret.res = material(doc, ret.prim)
    /\ ret.op = "position_bounds" => ret.res = position_bounds(doc, ret.prim)
\* A step is one reader's: no other reader's iterators or thread change.
StepOf(r) ==
    \A q \in Readers \ {r} : pit'[q] = pit[q] /\ ait'[q] = ait[q] /\ alive'[q] = alive[q]

\* C9: under any interleaving of the readers the document is never modified;
\* a step of an iterator changes only the cursor of that reader's iterator,
\* a call of a method changes no iterator; and every reader obtains what it
\* would obtain running alone.
C9_ReadersIndependent ==
    /\ []ResultsAlone
    /\ [][ /\ doc' = doc
           /\ \E r \in Readers : StepOf(r)
           /\ ret' # ret => pit' = pit /\ ait' = ait ]_vars

\* Both readers are in the middle of the same attribute map, at different
\* entries, while a call of the other reader has returned.
C9_Witness ==
    /\ ait[1].made /\ ait[2].made
    /\ ait[1].prim = ait[2].prim
    /\ ait[1].pos = 2 /\ ait[2].pos = 1
    /\ Len(ait[1].out) = 2
    /\ ret.op = "get" /\ ret.reader = 2 /\ ret.res.t = "ret"

(***************************************************************************)
(* The node graph of the document.                                         *)
(***************************************************************************)
NodeIds == 0..(Len(doc.nodes) - 1)
IsChild(c, n) == \E i \in 1..Len(Children(doc, n)) : Children(doc, n)[i] = c
\* The number of child references to node c.
ParentCount(c) ==
    Cardinality({<<n, i>> \in NodeIds \X (1..MaxChildren) :
                    i <= Len(Children(doc, n)) /\ Children(doc, n)[i] = c})
\* Nodes reachable from the nodes of S by at most k child references.
RECURSIVE Within(_, _)
Within(S, k) ==
    IF k = 0 THEN S
    ELSE LET T == Within(S, k - 1) IN T \cup {c \in NodeIds : \E n \in T : IsChild(c, n)}
Descendants(n) == Within({c \in NodeIds : IsChild(c, n)}, Len(doc.nodes))
\* The child references form a forest: no node has two parents, none is its
\* own descendant.
Forest ==
    /\ \A c \in NodeIds : ParentCount(c) <= 1
    /\ \A n \in NodeIds : n \notin Descendants(n)
SceneRoots == Roots(doc.scenes)
Reachable == Within({SceneRoots[i] : i \in 1..Len(SceneRoots)}, Len(doc.nodes))
\* How often the walk has visited node n.
Visits(n) == Cardinality({i \in 1..Len(walk.visited) : walk.visited[i] = n})
\* How often node n is listed as a root, over all scenes.
Listed(n) == Cardinality({i \in 1..Len(SceneRoots) : SceneRoots[i] = n})
\* Every listed root is a root of the forest, and is listed once.
RootsOnce ==
    \A i \in 1..Len(SceneRoots) :
        ParentCount(SceneRoots[i]) = 0 /\ Listed(SceneRoots[i]) = 1
\* The primitives of the mesh of node n, in order.
NodePrims(n) ==
    LET m == doc.nodes[n + 1].mesh IN
    IF m.some
    THEN [j \in 1..Len(doc.meshes[m.v + 1].primitives) |-> [mesh |-> m.v, index |-> j - 1]]
    ELSE <<>>
RECURSIVE PrimsOf(_)
PrimsOf(ns) == IF ns = <<>> THEN <<>> ELSE NodePrims(Head(ns)) \o PrimsOf(Tail(ns))

MeshIndex == 0
\* The wrapper of the j-th JSON primitive of the mesh (j from 0).
Wrapper(j) == [mesh |-> MeshIndex, index |-> j, json |-> Prims(doc)[j + 1]]
\* Sequence s is the first Len(s) wrappers of the mesh, in document order.
InDocumentOrder(s) ==
    /\ Len(s) <= Len(Prims(doc))
    /\ \A j \in 1..Len(s) : s[j] = Wrapper(j - 1)

\* C11: over a mesh of n primitives a Primitives iterator yields the
\* wrappers of the JSON primitives in document order, the j-th with index j,
\* the j-th JSON primitive and the mesh as parent; it has yielded exactly n
\* when it returns the end of the sequence, and every further call returns
\* the end of the sequence again and yields nothing; what one iterator
\* yields at a position is what any other iterator over the mesh yields
\* there, however far either has been consumed.
C11_PrimitivesInOrder ==
    /\ [](\A r \in Readers :
            pit[r].made =>
                /\ InDocumentOrder(pit[r].out)
                /\ Len(pit[r].out) = pit[r].pos
                /\ pit[r].ended => Len(pit[r].out) = Len(Prims(doc))
                /\ primitives_next(doc, pit[r]).res =
                      (IF Len(pit[r].out) < Len(Prims(doc))
                       THEN Ret(Some(Wrapper(Len(pit[r].out))))
                       ELSE Ret(None))
                /\ \A q \in Readers :
                      pit[q].made =>
                          \A j \in 1..Len(pit[r].out) :
                              j <= Len(pit[q].out) => pit[q].out[j] = pit[r].out[j])
    /\ [][\A r \in Readers :
              pit[r].ended /\ pit'[r].ended => pit'[r] = pit[r]]_vars

\* One iterator has yielded both primitives of a mesh and returned the end
\* of the sequence; another over the same mesh has yielded the first only.
C11_Witness ==
    /\ Len(Prims(doc)) = 2
    /\ pit[1].made /\ pit[1].ended
    /\ Len(pit[1].out) = 2
    /\ pit[1].out[2].index = 1
    /\ pit[1].out[1].json # pit[1].out[2].json
    /\ pit[2].made /\ ~pit[2].ended
    /\ Len(pit[2].out) = 1

(***************************************************************************)
(* The vertices of an imported primitive.                                  *)
(***************************************************************************)
\* The primitive iterate_primitive is at, or was at last.
BuiltAttrs == PrimJson(doc, build.prim).attributes
\* iterate_primitive has been entered: the document was imported.
Entered == build.pc \notin {"import", "rejected", "imported"}
\* The stages whose attribute the primitive has.
PresentStages == {pc \in StageSet : MapGet(BuiltAttrs, Valid(StageSemantic(pc))).some}

====
